---- MODULE Spec2Model ----
(***************************************************************************)
(* Model of the HTTP-to-SMTP bridge of src/src/main.rs: configuration      *)
(* loading (Config::from_env), transport construction (build_mailer), the  *)
(* start-up sequence of main, and the request handler send_email running   *)
(* for several requests in flight.                                         *)
(*                                                                         *)
(* Strings of the program are sequences of one-character strings, so that  *)
(* trim, to_ascii_lowercase, parse::<u16> and Mailbox::from_str are        *)
(* computed character by character.                                        *)
(***************************************************************************)
EXTENDS Integers, Sequences, FiniteSets, TLC

VARIABLES
    env,        \* the process environment: variable name -> [set, val]
    pc,         \* position of main: start, configured, built, serving, exited
    cfg,        \* the Config returned by Config::from_env
    state,      \* the shared AppState (mailer, from)
    listener,   \* [bound, addr]: the TcpListener of main
    exitErr,    \* the error main returned ("" while running)
    reqs,       \* request id -> the request's handling state
    health      \* number of GET /healthz answers given (capped)

vars == <<env, pc, cfg, state, listener, exitErr, reqs, health>>

---------------------------------------------------------------------------
(* Bounds of the model.                                                    *)

\* longest run of whitespace put before and after a value
MaxPad == 1
\* longest recipient / sender text over the alphabet {a, @}
MaxCore == 3
\* GET /healthz answers counted before the counter saturates
MaxHealth == 1

---------------------------------------------------------------------------
(* Strings.                                                                *)

\* str::trim strips White_Space characters; the model's are space and tab
IsWhitespace(c) == c \in {" ", "\t"}

RECURSIVE TrimStart(_)
TrimStart(s) ==
    IF s = <<>> THEN <<>>
    ELSE IF IsWhitespace(Head(s)) THEN TrimStart(Tail(s))
    ELSE s

RECURSIVE TrimEnd(_)
TrimEnd(s) ==
    IF s = <<>> THEN <<>>
    ELSE IF IsWhitespace(s[Len(s)]) THEN TrimEnd(SubSeq(s, 1, Len(s) - 1))
    ELSE s

\* a mutant of Trim: nothing is stripped
TrimNothing(s) == s

\* str::trim
Trim(s) == TrimEnd(TrimStart(s))

\* the upper-case ASCII letters the model's tokens use, with their lower case
UpperLetters ==
    [A |-> "a", E |-> "e", F |-> "f", L |-> "l", N |-> "n", O |-> "o",
     R |-> "r", S |-> "s", T |-> "t", U |-> "u", Y |-> "y"]

LowerChar(c) == IF c \in DOMAIN UpperLetters THEN UpperLetters[c] ELSE c

\* str::to_ascii_lowercase
ToAsciiLowercase(s) == [i \in 1..Len(s) |-> LowerChar(s[i])]

UpperChar(c) ==
    IF \E u \in DOMAIN UpperLetters : UpperLetters[u] = c
    THEN CHOOSE u \in DOMAIN UpperLetters : UpperLetters[u] = c
    ELSE c

\* every spelling of token t that differs from it only in letter case
RECURSIVE CaseVariants(_)
CaseVariants(t) ==
    IF t = <<>> THEN {<<>>}
    ELSE {<<c>> \o rest : c \in {Head(t), UpperChar(Head(t))}, rest \in CaseVariants(Tail(t))}

\* runs of length at most n of the characters of ws
RECURSIVE PadsUpTo(_, _)
PadsUpTo(ws, n) ==
    IF n = 0 THEN {<<>>}
    ELSE LET shorter == PadsUpTo(ws, n - 1)
         IN  shorter \cup {<<c>> \o p : c \in ws, p \in {q \in shorter : Len(q) = n - 1}}

\* the texts of cores with a run of pads before and after
Padded(pads, cores) == {l \o c \o r : l \in pads, c \in cores, r \in pads}

\* texts over the alphabet {a, @} of length at most n
RECURSIVE TextsUpTo(_)
TextsUpTo(n) ==
    IF n = 0 THEN {<<>>}
    ELSE LET shorter == TextsUpTo(n - 1)
         IN  shorter \cup {<<c>> \o p : c \in {"a", "@"}, p \in {q \in shorter : Len(q) = n - 1}}

AddressTexts == TextsUpTo(MaxCore)

---------------------------------------------------------------------------
(* Mailbox::from_str and parse::<u16>.                                     *)

\* index of the last "@" of s, 0 when there is none
LastAt(s) ==
    LET at == {i \in 1..Len(s) : s[i] = "@"}
    IN  IF at = {} THEN 0 ELSE CHOOSE i \in at : \A j \in at : j <= i

\* a character allowed in the user and in the domain of an address
AddressChar(c) == c \notin {"@", " ", "\t"}

\* a mutant of ParseMailbox: any text holding an "@" is accepted
ParseMailboxAnyAt(s) ==
    [ok |-> LastAt(s) > 0, user |-> SubSeq(s, 1, LastAt(s) - 1),
     domain |-> SubSeq(s, LastAt(s) + 1, Len(s))]

\* Mailbox::from_str on a text without display name: user "@" domain, split at
\* the last "@", both parts non-empty and made of address characters
ParseMailbox(s) ==
    LET k      == LastAt(s)
        user   == SubSeq(s, 1, k - 1)
        domain == SubSeq(s, k + 1, Len(s))
    IN  [ok     |-> /\ k > 0
                    /\ user # <<>>
                    /\ domain # <<>>
                    /\ \A i \in 1..Len(user) : AddressChar(user[i])
                    /\ \A i \in 1..Len(domain) : AddressChar(domain[i]),
         user   |-> user,
         domain |-> domain]

DigitSeq == <<"0", "1", "2", "3", "4", "5", "6", "7", "8", "9">>

IsDigit(c) == \E i \in 1..Len(DigitSeq) : DigitSeq[i] = c

DigitVal(c) == (CHOOSE i \in 1..Len(DigitSeq) : DigitSeq[i] = c) - 1

\* the largest u16
U16Max == 65535

\* the digits of s read left to right with checked arithmetic; -1 on a
\* character that is no digit and on overflow
RECURSIVE ParseDigits(_, _)
ParseDigits(s, acc) ==
    IF s = <<>> THEN acc
    ELSE IF ~IsDigit(Head(s)) THEN -1
    ELSE IF acc * 10 + DigitVal(Head(s)) > U16Max THEN -1
    ELSE ParseDigits(Tail(s), acc * 10 + DigitVal(Head(s)))

\* str::parse::<u16>: an optional "+", then at least one digit, no overflow
ParseU16(s) ==
    LET digits == IF s # <<>> /\ Head(s) = "+" THEN Tail(s) ELSE s
        v      == IF digits = <<>> THEN -1 ELSE ParseDigits(digits, 0)
    IN  [ok |-> v >= 0, val |-> IF v >= 0 THEN v ELSE 0]

---------------------------------------------------------------------------
(* The environment and Config::from_env.                                   *)

Unset == [set |-> FALSE, val |-> <<>>]

SetTo(v) == [set |-> TRUE, val |-> v]

NoCause == [msg |-> "", var |-> ""]

\* a mutant of MustEnv: an absent variable reads as the empty text
MustEnvOrEmpty(e, name) == [ok |-> TRUE, val |-> e[name].val, err |-> NoCause]

\* must_env: the variable's value, or the error "missing env var: {name}"
MustEnv(e, name) ==
    IF e[name].set
    THEN [ok |-> TRUE, val |-> e[name].val, err |-> NoCause]
    ELSE [ok |-> FALSE, val |-> <<>>, err |-> [msg |-> "missing env var", var |-> name]]

\* env::var(name).unwrap_or_else(|_| default)
EnvOr(e, name, default) == IF e[name].set THEN e[name].val ELSE default

Truthy == {<<"1">>, <<"t", "r", "u", "e">>, <<"y", "e", "s">>, <<"o", "n">>}

Falsy == {<<"0">>, <<"f", "a", "l", "s", "e">>, <<"n", "o">>, <<"o", "f", "f">>}

\* a mutant of ParseBoolEnv: the value is matched without trim and lower-casing
ParseBoolEnvRaw(e, name) ==
    IF ~e[name].set THEN [some |-> FALSE, val |-> FALSE]
    ELSE IF e[name].val \in Truthy THEN [some |-> TRUE, val |-> TRUE]
    ELSE IF e[name].val \in Falsy THEN [some |-> TRUE, val |-> FALSE]
    ELSE [some |-> FALSE, val |-> FALSE]

\* parse_bool_env: None when unset or unrecognised
ParseBoolEnv(e, name) ==
    IF ~e[name].set THEN [some |-> FALSE, val |-> FALSE]
    ELSE LET raw == ToAsciiLowercase(Trim(e[name].val))
         IN  IF raw \in Truthy THEN [some |-> TRUE, val |-> TRUE]
             ELSE IF raw \in Falsy THEN [some |-> TRUE, val |-> FALSE]
             ELSE [some |-> FALSE, val |-> FALSE]

\* Option::unwrap_or
UnwrapOr(opt, default) == IF opt.some THEN opt.val ELSE default

DefaultPort == <<"5", "8", "7">>

DefaultBind == <<"1", "2", "7", ".", "0", ".", "0", ".", "1", ":", "8", "0", "8", "0">>

NoMailbox == [user |-> <<>>, domain |-> <<>>]

NoCfg ==
    [http_bind |-> <<>>, smtp_host |-> <<>>, smtp_port |-> 0, smtp_username |-> <<>>,
     smtp_password |-> <<>>, smtp_from |-> NoMailbox, smtp_tls |-> FALSE]

ConfigErr(cause) == [ok |-> FALSE, cfg |-> NoCfg, err |-> cause]

\* Config::from_env: the checks in the order the code makes them, the first
\* failure returned
FromEnv(e) ==
    LET from_raw == MustEnv(e, "SMTP_FROM")
        from     == ParseMailbox(from_raw.val)
        port     == ParseU16(EnvOr(e, "SMTP_PORT", DefaultPort))
        host     == MustEnv(e, "SMTP_HOST")
        username == MustEnv(e, "SMTP_USERNAME")
        password == MustEnv(e, "SMTP_PASSWORD")
    IN  IF ~from_raw.ok THEN ConfigErr(from_raw.err)
        ELSE IF ~from.ok
            THEN ConfigErr([msg |-> "SMTP_FROM is not a valid email", var |-> "SMTP_FROM"])
        ELSE IF ~port.ok
            THEN ConfigErr([msg |-> "SMTP_PORT must be a valid u16", var |-> "SMTP_PORT"])
        ELSE IF ~host.ok THEN ConfigErr(host.err)
        ELSE IF ~username.ok THEN ConfigErr(username.err)
        ELSE IF ~password.ok THEN ConfigErr(password.err)
        ELSE [ok  |-> TRUE,
              cfg |-> [http_bind     |-> EnvOr(e, "HTTP_BIND", DefaultBind),
                       smtp_host     |-> host.val,
                       smtp_port     |-> port.val,
                       smtp_username |-> username.val,
                       smtp_password |-> password.val,
                       smtp_from     |-> [user |-> from.user, domain |-> from.domain],
                       smtp_tls      |-> UnwrapOr(ParseBoolEnv(e, "SMTP_TLS"), TRUE)],
              err |-> NoCause]

---------------------------------------------------------------------------
(* build_mailer and the start-up sequence of main.                         *)

NoMailer ==
    [host |-> <<>>, port |-> 0, username |-> <<>>, password |-> <<>>, tls |-> FALSE]

\* build_mailer: relay() can fail when TLS is asked for (relayOk is what the TLS
\* backend answers for the host), builder_dangerous() cannot
BuildMailer(c, relayOk) ==
    IF c.smtp_tls /\ ~relayOk
    THEN [ok |-> FALSE, mailer |-> NoMailer]
    ELSE [ok     |-> TRUE,
          mailer |-> [host     |-> c.smtp_host,
                      port     |-> c.smtp_port,
                      username |-> c.smtp_username,
                      password |-> c.smtp_password,
                      tls      |-> c.smtp_tls]]

NoState == [built |-> FALSE, mailer |-> NoMailer, from |-> NoMailbox]

\* Arc::new(AppState { mailer, from: cfg.smtp_from })
NewAppState(mailer, c) == [built |-> TRUE, mailer |-> mailer, from |-> c.smtp_from]

NoListener == [bound |-> FALSE, addr |-> <<>>]

NoError == [context |-> "", cause |-> NoCause]

\* main returns Err(e): the process ends with a non-zero status
Exit(context, cause) ==
    /\ pc' = "exited"
    /\ exitErr' = [context |-> context, cause |-> cause]

\* a mutant of MainLoadConfig: a configuration error is ignored and start-up
\* goes on
MainLoadConfigLenient ==
    /\ pc = "start"
    /\ cfg' = FromEnv(env).cfg
    /\ pc' = "configured"
    /\ UNCHANGED <<env, state, listener, exitErr, reqs, health>>

\* main, line 52: Config::from_env().context(..)?
MainLoadConfig ==
    /\ pc = "start"
    /\ LET r == FromEnv(env)
       IN  IF r.ok
           THEN /\ cfg' = r.cfg
                /\ pc' = "configured"
                /\ UNCHANGED exitErr
           ELSE /\ Exit("failed to load configuration from environment", r.err)
                /\ UNCHANGED cfg
    /\ UNCHANGED <<env, state, listener, reqs, health>>

\* main, lines 53-63: build_mailer(&cfg)?, then the shared state and the router
MainBuildMailer ==
    /\ pc = "configured"
    /\ \E relayOk \in BOOLEAN :
          LET m == BuildMailer(cfg, relayOk)
          IN  IF m.ok
              THEN /\ state' = NewAppState(m.mailer, cfg)
                   /\ pc' = "built"
                   /\ UNCHANGED exitErr
              ELSE /\ Exit("failed to create TLS SMTP transport", NoCause)
                   /\ UNCHANGED state
    /\ UNCHANGED <<env, cfg, listener, reqs, health>>

\* main, lines 65-69: TcpListener::bind(&cfg.http_bind), which the system may
\* refuse
MainBind ==
    /\ pc = "built"
    /\ \E bindOk \in BOOLEAN :
          IF bindOk
          THEN /\ listener' = [bound |-> TRUE, addr |-> cfg.http_bind]
               /\ pc' = "serving"
               /\ UNCHANGED exitErr
          ELSE /\ Exit("failed to bind to", NoCause)
               /\ UNCHANGED listener
    /\ UNCHANGED <<env, cfg, state, reqs, health>>

\* main, lines 70-72: axum::serve returns with an error
MainServeExit ==
    /\ pc = "serving"
    /\ Exit("http server exited unexpectedly", NoCause)
    /\ UNCHANGED <<env, cfg, state, listener, reqs, health>>

---------------------------------------------------------------------------
(* The handlers.                                                           *)

Requests == {"r1", "r2"}

NoResponse == [status |-> 0, kind |-> "none", ok |-> FALSE, message |-> ""]

\* error_response
ErrorResponse(status, message) ==
    [status |-> status, kind |-> "api", ok |-> FALSE, message |-> message]

\* healthz
Healthz ==
    /\ pc = "serving"
    /\ health < MaxHealth
    /\ health' = health + 1
    /\ UNCHANGED <<env, pc, cfg, state, listener, exitErr, reqs>>

\* The Json<SendEmailRequest> extractor of send_email's signature.  A body that
\* is not JSON, one whose fields are missing or of another type, and a request
\* without a JSON content type are rejected by the extractor itself, with its
\* own status and a plain-text body; the handler's body does not run.
JsonExtract(p) ==
    IF p.shape = "json" THEN [ok |-> TRUE, rejection |-> NoResponse]
    ELSE [ok        |-> FALSE,
          rejection |-> [status  |-> CASE p.shape = "syntax_error"         -> 400
                                       [] p.shape = "data_error"           -> 422
                                       [] p.shape = "missing_content_type" -> 415,
                         kind    |-> "text",
                         ok      |-> FALSE,
                         message |-> p.shape]]

NoMessage == [from |-> NoMailbox, to |-> NoMailbox, subject |-> <<>>, body |-> <<>>]

\* Message::builder().from(..).to(..).subject(..).body(..): buildable is whether
\* the library accepts the assembled content
BuildMessage(from, to, title, body, buildable) ==
    IF buildable
    THEN [ok |-> TRUE, message |-> [from |-> from, to |-> to, subject |-> title, body |-> body]]
    ELSE [ok |-> FALSE, message |-> NoMessage]

Return(resp) == [returned |-> TRUE, resp |-> resp, email |-> NoMessage]

\* a mutant of SendEmail: the recipient is checked before the body
SendEmailRecipientFirst(st, p) ==
    IF ~JsonExtract(p).ok THEN Return(JsonExtract(p).rejection)
    ELSE IF Trim(p.title) = <<>>
        THEN Return(ErrorResponse(400, "title cannot be empty"))
    ELSE IF Trim(p.to) = <<>>
        THEN Return(ErrorResponse(400, "to cannot be empty"))
    ELSE IF ~ParseMailbox(Trim(p.to)).ok
        THEN Return(ErrorResponse(400, "invalid recipient email"))
    ELSE IF Trim(p.body) = <<>>
        THEN Return(ErrorResponse(400, "body cannot be empty"))
    ELSE IF ~p.buildable
        THEN Return(ErrorResponse(400, "invalid email payload"))
    ELSE [returned |-> FALSE, resp |-> NoResponse,
          email |-> BuildMessage(st.from, [user |-> ParseMailbox(Trim(p.to)).user,
                                           domain |-> ParseMailbox(Trim(p.to)).domain],
                                 p.title, p.body, p.buildable).message]

\* send_email up to the call of state.mailer.send (lines 82-114): the response
\* it returns early, or the message it hands to the transport
SendEmail(st, p) ==
    LET ext   == JsonExtract(p)
        to    == ParseMailbox(Trim(p.to))
        email == BuildMessage(st.from, [user |-> to.user, domain |-> to.domain],
                              p.title, p.body, p.buildable)
    IN  IF ~ext.ok THEN Return(ext.rejection)
        ELSE IF Trim(p.title) = <<>>
            THEN Return(ErrorResponse(400, "title cannot be empty"))
        ELSE IF Trim(p.body) = <<>>
            THEN Return(ErrorResponse(400, "body cannot be empty"))
        ELSE IF Trim(p.to) = <<>>
            THEN Return(ErrorResponse(400, "to cannot be empty"))
        ELSE IF ~to.ok
            THEN Return(ErrorResponse(400, "invalid recipient email"))
        ELSE IF ~email.ok
            THEN Return(ErrorResponse(400, "invalid email payload"))
        ELSE [returned |-> FALSE, resp |-> NoResponse, email |-> email.message]

\* what the transport can answer to one send
Outcomes == {"ok", "connection_error", "auth_error", "rejected"}

\* a mutant of SendResult: a failed delivery is answered like a success
SendResultAlwaysSent(outcome) ==
    [status |-> 200, kind |-> "api", ok |-> TRUE, message |-> "sent"]

\* send_email after state.mailer.send(email).await (lines 114-129)
SendResult(outcome) ==
    IF outcome = "ok"
    THEN [status |-> 200, kind |-> "api", ok |-> TRUE, message |-> "sent"]
    ELSE ErrorResponse(500, "smtp send failed")

NoPayload ==
    [shape |-> "none", title |-> <<>>, to |-> <<>>, body |-> <<>>, buildable |-> FALSE]

IdleReq ==
    [stage |-> "idle", payload |-> NoPayload, sends |-> 0, email |-> NoMessage,
     delivery |-> "none", resp |-> NoResponse]

\* a POST /send-email request with one of the given payloads reaches the
\* listener
Arrive(r, payloads) ==
    /\ pc = "serving"
    /\ listener.bound
    /\ reqs[r].stage = "idle"
    /\ \E p \in payloads :
          reqs' = [reqs EXCEPT ![r].stage = "received", ![r].payload = p]
    /\ UNCHANGED <<env, pc, cfg, state, listener, exitErr, health>>

\* a mutant of Handle: the message is handed to the transport twice
HandleSendTwice(r) ==
    /\ pc = "serving"
    /\ reqs[r].stage = "received"
    /\ LET h == SendEmail(state, reqs[r].payload)
       IN  reqs' = [reqs EXCEPT
                      ![r].stage = IF h.returned THEN "done" ELSE "awaiting",
                      ![r].resp  = h.resp,
                      ![r].email = h.email,
                      ![r].sends = IF h.returned THEN @ ELSE @ + 2]
    /\ UNCHANGED <<env, pc, cfg, state, listener, exitErr, health>>

\* send_email runs for request r until it returns or awaits the transport,
\* whose send it has then called once
Handle(r) ==
    /\ pc = "serving"
    /\ reqs[r].stage = "received"
    /\ LET h == SendEmail(state, reqs[r].payload)
       IN  reqs' = [reqs EXCEPT
                      ![r].stage = IF h.returned THEN "done" ELSE "awaiting",
                      ![r].resp  = h.resp,
                      ![r].email = h.email,
                      ![r].sends = IF h.returned THEN @ ELSE @ + 1]
    /\ UNCHANGED <<env, pc, cfg, state, listener, exitErr, health>>

\* a mutant of SendComplete: the outcome of one delivery is kept in a place all
\* requests share, and answers every request that awaits the transport
SendCompleteShared(r, outcome) ==
    /\ pc = "serving"
    /\ reqs[r].stage = "awaiting"
    /\ reqs' = [q \in Requests |->
                  IF q = r
                  THEN [reqs[q] EXCEPT !.stage = "done", !.delivery = outcome,
                                       !.resp = SendResult(outcome)]
                  ELSE IF reqs[q].stage = "awaiting"
                  THEN [reqs[q] EXCEPT !.stage = "done", !.delivery = "ok",
                                       !.resp = SendResult(outcome)]
                  ELSE reqs[q]]
    /\ UNCHANGED <<env, pc, cfg, state, listener, exitErr, health>>

\* the transport answers request r's send and send_email returns
SendComplete(r, outcome) ==
    /\ pc = "serving"
    /\ reqs[r].stage = "awaiting"
    /\ reqs' = [reqs EXCEPT ![r].stage = "done", ![r].delivery = outcome,
                            ![r].resp = SendResult(outcome)]
    /\ UNCHANGED <<env, pc, cfg, state, listener, exitErr, health>>

---------------------------------------------------------------------------
(* Inputs.                                                                 *)

GoodFrom == <<"a", "@", "a">>

\* the environments of the whole program
Envs ==
    [HTTP_BIND     : {Unset, SetTo(<<"b">>)},
     SMTP_HOST     : {Unset, SetTo(<<"h">>)},
     SMTP_PORT     : {Unset, SetTo(<<"2", "5">>), SetTo(<<"6", "5", "5", "3", "6">>)},
     SMTP_USERNAME : {Unset, SetTo(<<"u">>)},
     SMTP_PASSWORD : {Unset, SetTo(<<"p">>)},
     SMTP_FROM     : {Unset, SetTo(GoodFrom), SetTo(<<"a", "@">>)},
     SMTP_TLS      : {Unset, SetTo(<<"o", "f", "f">>), SetTo(<<"m", "a", "y", "b", "e">>)}]

\* values of SMTP_TLS: the tokens in every letter case, and texts that are no
\* token, each with whitespace around it
TlsTexts ==
    Padded(PadsUpTo({" ", "\t"}, MaxPad),
           UNION {CaseVariants(t) : t \in Truthy \cup Falsy}
           \cup {<<>>, <<"2">>, <<"m", "a", "y", "b", "e">>, <<"o", "n", "n">>,
                 <<"o", " ", "n">>, <<"t", "r", "u">>})

PortTexts ==
    {<<>>, <<"0">>, <<"5", "8", "7">>, <<"6", "5", "5", "3", "5">>,
     <<"6", "5", "5", "3", "6">>, <<"+", "2", "5">>, <<"+">>, <<"-", "1">>,
     <<"2", "a">>, <<" ", "2", "5">>}

\* the environments configuration loading is checked on: every value of
\* SMTP_TLS, and every sender and port text
ConfigEnvs ==
    [HTTP_BIND     : {Unset},
     SMTP_HOST     : {Unset, SetTo(<<"h">>)},
     SMTP_PORT     : {Unset, SetTo(<<"2", "a">>)},
     SMTP_USERNAME : {SetTo(<<"u">>)},
     SMTP_PASSWORD : {SetTo(<<"p">>)},
     SMTP_FROM     : {SetTo(GoodFrom)},
     SMTP_TLS      : {Unset} \cup {SetTo(t) : t \in TlsTexts}]
    \cup
    [HTTP_BIND     : {Unset},
     SMTP_HOST     : {Unset, SetTo(<<"h">>)},
     SMTP_PORT     : {Unset} \cup {SetTo(t) : t \in PortTexts},
     SMTP_USERNAME : {Unset, SetTo(<<"u">>)},
     SMTP_PASSWORD : {Unset, SetTo(<<"p">>)},
     SMTP_FROM     : {Unset} \cup {SetTo(t) : t \in AddressTexts},
     SMTP_TLS      : {Unset, SetTo(<<"o", "f", "f">>)}]

Malformed ==
    {[NoPayload EXCEPT !.shape = k] :
        k \in {"syntax_error", "data_error", "missing_content_type"}}

Json(title, to, body, buildable) ==
    [shape |-> "json", title |-> title, to |-> to, body |-> body, buildable |-> buildable]

\* the requests sent while several are in flight
SamplePayloads ==
    Malformed \cup
    {Json(<<"a">>, GoodFrom, <<"a">>, TRUE),
     Json(<<"a">>, GoodFrom, <<"a">>, FALSE),
     Json(<<" ">>, <<"a", "@">>, <<>>, TRUE),
     Json(<<"a">>, <<"a", "@">>, <<"a">>, TRUE),
     Json(<<"a">>, <<" ">>, <<"a">>, TRUE)}

SpacePads == PadsUpTo({" "}, MaxPad)

FieldTexts == Padded(SpacePads, {<<>>, <<"a">>}) \cup {<<"\t">>}

ToTexts == Padded(SpacePads, AddressTexts) \cup {<<"\t">>, <<"\t", "a", "@", "a">>}

\* the well-formed requests send_email is checked on one at a time
JsonPayloads ==
    [shape : {"json"}, title : FieldTexts, to : ToTexts, body : FieldTexts,
     buildable : BOOLEAN]

---------------------------------------------------------------------------
(* Specifications.                                                         *)

Started ==
    /\ pc = "start"
    /\ cfg = NoCfg
    /\ state = NoState
    /\ listener = NoListener
    /\ exitErr = NoError
    /\ reqs = [r \in Requests |-> IdleReq]
    /\ health = 0

\* the whole program: start-up, then requests in flight together
Init == env \in Envs /\ Started

Next ==
    \/ MainLoadConfig
    \/ MainBuildMailer
    \/ MainBind
    \/ MainServeExit
    \/ Healthz
    \/ \E r \in Requests : Arrive(r, SamplePayloads)
    \/ \E r \in Requests : Handle(r)
    \/ \E r \in Requests, o \in Outcomes : SendComplete(r, o)

Spec == Init /\ [][Next]_vars

\* configuration loading alone, on every environment of ConfigEnvs
InitConfig == env \in ConfigEnvs /\ Started

NextConfig == MainLoadConfig

SpecConfig == InitConfig /\ [][NextConfig]_vars

\* the environment the served program of SpecHandler was started in
ServingEnv ==
    [HTTP_BIND     |-> Unset,
     SMTP_HOST     |-> SetTo(<<"h">>),
     SMTP_PORT     |-> Unset,
     SMTP_USERNAME |-> SetTo(<<"u">>),
     SMTP_PASSWORD |-> SetTo(<<"p">>),
     SMTP_FROM     |-> SetTo(GoodFrom),
     SMTP_TLS      |-> Unset]

\* send_email alone: the program as main leaves it when it starts serving in
\* ServingEnv, then one request, malformed or any of JsonPayloads
InitHandler ==
    /\ env = ServingEnv
    /\ pc = "serving"
    /\ cfg = FromEnv(ServingEnv).cfg
    /\ state = NewAppState(BuildMailer(FromEnv(ServingEnv).cfg, TRUE).mailer,
                           FromEnv(ServingEnv).cfg)
    /\ listener = [bound |-> TRUE, addr |-> FromEnv(ServingEnv).cfg.http_bind]
    /\ exitErr = NoError
    /\ reqs = [r \in Requests |-> IdleReq]
    /\ health = 0

NextHandler ==
    \/ Arrive("r1", Malformed)
    \/ Arrive("r1", JsonPayloads)
    \/ Handle("r1")
    \/ \E o \in Outcomes : SendComplete("r1", o)

SpecHandler == InitHandler /\ [][NextHandler]_vars

---------------------------------------------------------------------------
(* What the specification says of a request, stated on the texts           *)
(* themselves.                                                             *)

\* s is empty or holds only whitespace
Blank(s) == \A i \in 1..Len(s) : IsWhitespace(s[i])

\* s is, between whitespace, a user, one "@" and a domain
IsRecipient(s) ==
    \E i, j \in 1..Len(s) :
        /\ i < j
        /\ \A k \in 1..(i - 1) : IsWhitespace(s[k])
        /\ \A k \in (j + 1)..Len(s) : IsWhitespace(s[k])
        /\ \E k \in (i + 1)..(j - 1) :
              /\ s[k] = "@"
              /\ \A m \in (i..j) \ {k} : AddressChar(s[m])

\* the reason of the earliest failing check, "" when all four pass
ExpectedReason(p) ==
    IF Blank(p.title) THEN "title cannot be empty"
    ELSE IF Blank(p.body) THEN "body cannot be empty"
    ELSE IF Blank(p.to) THEN "to cannot be empty"
    ELSE IF ~IsRecipient(p.to) THEN "invalid recipient email"
    ELSE ""

\* the request passes the four field validations and message construction
ValidRequest(p) == p.shape = "json" /\ ExpectedReason(p) = "" /\ p.buildable

Handled(q) == q.stage \in {"awaiting", "done"}

Sent == [status |-> 200, kind |-> "api", ok |-> TRUE, message |-> "sent"]

SendFailed == [status |-> 500, kind |-> "api", ok |-> FALSE, message |-> "smtp send failed"]

---------------------------------------------------------------------------
(* Claims on send_email, under SpecHandler.                                *)

\* C1: a request whose title, body or to is empty or only whitespace is
\* answered 400 with ok = false and the reason of an empty field (the first in
\* the order title, body, to), and the transport's send is not called for it.
C1_EmptyFieldRejected ==
    \A r \in Requests :
        LET q == reqs[r]
            p == q.payload
        IN  (Handled(q) /\ p.shape = "json"
                /\ (Blank(p.title) \/ Blank(p.body) \/ Blank(p.to)))
            => /\ q.stage = "done"
               /\ q.resp.status = 400
               /\ q.resp.kind = "api"
               /\ ~q.resp.ok
               /\ q.resp.message =
                    (IF Blank(p.title) THEN "title cannot be empty"
                     ELSE IF Blank(p.body) THEN "body cannot be empty"
                     ELSE "to cannot be empty")
               /\ q.sends = 0

\* a request with a whitespace-only to and the other fields filled was answered
C1_Witness ==
    \E r \in Requests :
        /\ reqs[r].stage = "done"
        /\ reqs[r].payload.shape = "json"
        /\ Len(reqs[r].payload.to) > 0
        /\ Blank(reqs[r].payload.to)
        /\ ~Blank(reqs[r].payload.title)
        /\ ~Blank(reqs[r].payload.body)
        /\ reqs[r].resp.message = "to cannot be empty"

\* C2: validation runs in the order title, body, to non-empty, to a mailbox,
\* and the reason returned is that of the earliest failing check.
C2_FirstFailureWins ==
    \A r \in Requests :
        LET q == reqs[r]
            p == q.payload
        IN  (Handled(q) /\ p.shape = "json" /\ ExpectedReason(p) # "")
            => /\ q.stage = "done"
               /\ q.resp = ErrorResponse(400, ExpectedReason(p))

\* a request failing the body check and the mailbox check at once was answered
\* with the body's reason
C2_Witness ==
    \E r \in Requests :
        /\ reqs[r].stage = "done"
        /\ reqs[r].payload.shape = "json"
        /\ ~Blank(reqs[r].payload.title)
        /\ Blank(reqs[r].payload.body)
        /\ ~Blank(reqs[r].payload.to)
        /\ ~IsRecipient(reqs[r].payload.to)
        /\ reqs[r].resp.message = "body cannot be empty"

\* C3, as claimed: with title and body filled, every to that is no mailbox,
\* the empty text included, is answered 400 "invalid recipient email".
C3_AnyNonMailboxIsInvalidRecipient ==
    \A r \in Requests :
        LET q == reqs[r]
            p == q.payload
        IN  (Handled(q) /\ p.shape = "json" /\ ~Blank(p.title) /\ ~Blank(p.body)
                /\ ~IsRecipient(p.to))
            => q.resp = ErrorResponse(400, "invalid recipient email")

\* C3, amended: with title and body filled, every to that is not blank and is
\* no mailbox is answered 400 "invalid recipient email"; a to that is empty or
\* only whitespace is answered 400 "to cannot be empty".
C3_InvalidRecipient ==
    \A r \in Requests :
        LET q == reqs[r]
            p == q.payload
        IN  (Handled(q) /\ p.shape = "json" /\ ~Blank(p.title) /\ ~Blank(p.body)
                /\ ~IsRecipient(p.to))
            => /\ q.stage = "done"
               /\ q.resp = ErrorResponse(400, IF Blank(p.to) THEN "to cannot be empty"
                                              ELSE "invalid recipient email")

\* the request with to = "a@" was answered "invalid recipient email"
C3_Witness ==
    \E r \in Requests :
        /\ reqs[r].stage = "done"
        /\ reqs[r].payload.shape = "json"
        /\ reqs[r].payload.to = <<"a", "@">>
        /\ reqs[r].resp = ErrorResponse(400, "invalid recipient email")

\* C4: a request that passes the four validations and message construction
\* causes exactly one call of the transport's send, also when that call fails;
\* any other request causes none; no request causes two.
C4_OneAttemptPerValidRequest ==
    \A r \in Requests :
        LET q == reqs[r]
        IN  /\ q.sends <= 1
            /\ Handled(q) => q.sends = (IF ValidRequest(q.payload) THEN 1 ELSE 0)
            /\ q.stage = "awaiting" => ValidRequest(q.payload)
            /\ ~Handled(q) => q.sends = 0

\* a valid request whose delivery failed was answered after one attempt
C4_Witness ==
    \E r \in Requests :
        /\ reqs[r].stage = "done"
        /\ ValidRequest(reqs[r].payload)
        /\ reqs[r].delivery \in Outcomes \ {"ok"}
        /\ reqs[r].sends = 1

\* C5: for a valid request the response is 200 {ok: true, "sent"} when the
\* transport acknowledges and 500 {ok: false, "smtp send failed"} for every
\* failure; no 200 is given without a successful delivery.
C5_ResponseFollowsDelivery ==
    \A r \in Requests :
        LET q == reqs[r]
        IN  /\ (q.stage = "done" /\ ValidRequest(q.payload))
               => /\ q.delivery \in Outcomes
                  /\ q.delivery = "ok" => q.resp = Sent
                  /\ q.delivery # "ok" => q.resp = SendFailed
            /\ q.resp.status = 200
               => (q.delivery = "ok" /\ q.sends = 1 /\ ValidRequest(q.payload))

\* a valid request whose delivery failed on authentication was answered 500
C5_Witness ==
    \E r \in Requests :
        /\ reqs[r].stage = "done"
        /\ ValidRequest(reqs[r].payload)
        /\ reqs[r].delivery = "auth_error"
        /\ reqs[r].resp = SendFailed

---------------------------------------------------------------------------
(* Claims on the whole program, under Spec.                                *)

\* C6, as claimed: a request whose body cannot be deserialized is answered 400
\* with a body {ok: false, message}, and no delivery is attempted.
C6_MalformedBodyIs400Json ==
    \A r \in Requests :
        LET q == reqs[r]
        IN  (q.stage = "done" /\ q.payload.shape # "json")
            => /\ q.resp.status = 400
               /\ q.resp.kind = "api"
               /\ ~q.resp.ok
               /\ q.sends = 0

\* the environment lets Config::from_env succeed
ValidEnv(e) ==
    /\ \A v \in {"SMTP_HOST", "SMTP_USERNAME", "SMTP_PASSWORD", "SMTP_FROM"} : e[v].set
    /\ IsRecipient(e["SMTP_FROM"].val)
    /\ ~IsWhitespace(e["SMTP_FROM"].val[1])
    /\ ~IsWhitespace(e["SMTP_FROM"].val[Len(e["SMTP_FROM"].val)])
    /\ e["SMTP_PORT"].set => ParseU16(e["SMTP_PORT"].val).ok

NothingServed ==
    /\ ~listener.bound
    /\ health = 0
    /\ \A r \in Requests : reqs[r] = IdleReq

StartupFailures ==
    {"failed to load configuration from environment",
     "failed to create TLS SMTP transport"}

\* C9: the listener is bound and requests are served only after configuration
\* loading and transport construction succeeded; when either fails, main ends
\* with an error and nothing was bound, served or sent.
C9_FailFastStartup ==
    /\ listener.bound => (cfg # NoCfg /\ state.built /\ ValidEnv(env))
    /\ ((\E r \in Requests : reqs[r] # IdleReq) \/ health > 0)
       => (listener.bound /\ state.built)
    /\ (pc # "start" /\ ~ValidEnv(env))
       => (pc = "exited"
           /\ exitErr.context = "failed to load configuration from environment")
    /\ exitErr.context \in StartupFailures => (pc = "exited" /\ NothingServed)
    /\ pc = "exited" <=> exitErr # NoError

\* main ended because the TLS transport could not be set up
C9_Witness ==
    /\ pc = "exited"
    /\ exitErr.context = "failed to create TLS SMTP transport"
    /\ cfg # NoCfg
    /\ NothingServed

\* the response the specification gives a request with its own delivery outcome
ExpectedResponse(p, delivery) ==
    IF p.shape # "json" THEN JsonExtract(p).rejection
    ELSE IF ExpectedReason(p) # "" THEN ErrorResponse(400, ExpectedReason(p))
    ELSE IF ~p.buildable THEN ErrorResponse(400, "invalid email payload")
    ELSE IF delivery = "ok" THEN Sent
    ELSE SendFailed

\* C10: with several requests in flight, each request's response and number of
\* delivery attempts are those its own fields and its own delivery outcome
\* give, and the shared state stays the one main built.
C10_RequestsIndependent ==
    /\ \A r \in Requests :
          LET q == reqs[r]
          IN  /\ q.stage = "done" => q.resp = ExpectedResponse(q.payload, q.delivery)
              /\ q.stage = "done" => (q.delivery = "none" <=> ~ValidRequest(q.payload))
              /\ q.stage = "awaiting" => (q.resp = NoResponse /\ q.delivery = "none")
              /\ Handled(q) => q.sends = (IF ValidRequest(q.payload) THEN 1 ELSE 0)
    /\ state.built
       => /\ state.from = [user |-> <<"a">>, domain |-> <<"a">>]
          /\ state.mailer.host = env["SMTP_HOST"].val
          /\ state.mailer.tls = cfg.smtp_tls
          /\ cfg = FromEnv(env).cfg

\* one request's delivery failed while the other, valid, still awaits its own
C10_Witness ==
    /\ reqs["r1"].stage = "awaiting"
    /\ reqs["r2"].stage = "done"
    /\ reqs["r2"].resp = SendFailed

---------------------------------------------------------------------------
(* Claims on Config::from_env, under SpecConfig.                           *)

Required == <<"SMTP_FROM", "SMTP_HOST", "SMTP_USERNAME", "SMTP_PASSWORD">>

SomeRequiredAbsent(e) == \E i \in 1..Len(Required) : ~e[Required[i]].set

\* the first absent required variable, in the order from_env reads them
FirstAbsent(e) ==
    Required[CHOOSE i \in 1..Len(Required) :
                /\ ~e[Required[i]].set
                /\ \A j \in 1..(i - 1) : e[Required[j]].set]

\* C7, as claimed: when a required variable is absent, whatever the other
\* variables are, from_env fails and its error names an absent variable.
C7_MissingVariableNamed ==
    (pc # "start" /\ SomeRequiredAbsent(env))
    => /\ pc = "exited"
       /\ exitErr.cause.msg = "missing env var"
       /\ \E i \in 1..Len(Required) :
             exitErr.cause.var = Required[i] /\ ~env[Required[i]].set

\* C7, amended: when a required variable is absent from_env fails; its error
\* names the first absent variable (order SMTP_FROM, SMTP_HOST, SMTP_USERNAME,
\* SMTP_PASSWORD), unless SMTP_FROM is set and no mailbox, or SMTP_FROM is a
\* mailbox and SMTP_PORT is set and no u16: then the error is that of the
\* invalid SMTP_FROM or SMTP_PORT.
C7_MissingVariableFails ==
    (pc # "start" /\ SomeRequiredAbsent(env))
    => /\ pc = "exited"
       /\ cfg = NoCfg
       /\ exitErr.context = "failed to load configuration from environment"
       /\ exitErr.cause =
            (IF env["SMTP_FROM"].set /\ ~ParseMailbox(env["SMTP_FROM"].val).ok
             THEN [msg |-> "SMTP_FROM is not a valid email", var |-> "SMTP_FROM"]
             ELSE IF env["SMTP_FROM"].set /\ env["SMTP_PORT"].set
                     /\ ~ParseU16(env["SMTP_PORT"].val).ok
             THEN [msg |-> "SMTP_PORT must be a valid u16", var |-> "SMTP_PORT"]
             ELSE [msg |-> "missing env var", var |-> FirstAbsent(env)])

\* from_env failed naming SMTP_PASSWORD, absent from an environment whose other
\* variables are good
C7_Witness ==
    /\ pc = "exited"
    /\ ~env["SMTP_PASSWORD"].set
    /\ env["SMTP_FROM"].set
    /\ env["SMTP_HOST"].set
    /\ env["SMTP_USERNAME"].set
    /\ exitErr.cause = [msg |-> "missing env var", var |-> "SMTP_PASSWORD"]

\* s is token t in some letter case
IsTokenIgnoringCase(s, tokens) ==
    \E t \in tokens : Len(s) = Len(t) /\ \A i \in 1..Len(t) : LowerChar(s[i]) = t[i]

\* s is, between whitespace, token t in some letter case
IsPaddedToken(s, tokens) ==
    \E i, j \in 1..Len(s) :
        /\ i <= j
        /\ \A k \in 1..(i - 1) : IsWhitespace(s[k])
        /\ \A k \in (j + 1)..Len(s) : IsWhitespace(s[k])
        /\ IsTokenIgnoringCase(SubSeq(s, i, j), tokens)

\* the other variables let from_env succeed
OthersGood(e) == ValidEnv([e EXCEPT !["SMTP_TLS"] = Unset])

\* C8, as claimed: the TLS flag is true when SMTP_TLS is unset, true for the
\* truthy tokens and false for the falsy tokens compared case-insensitively,
\* true for every other value; no value makes loading fail.
C8_TlsFlagByToken ==
    /\ pc = "configured"
       => cfg.smtp_tls = (~(env["SMTP_TLS"].set
                            /\ IsTokenIgnoringCase(env["SMTP_TLS"].val, Falsy)))
    /\ (pc # "start" /\ OthersGood(env)) => pc = "configured"

\* C8, amended: the tokens are compared case-insensitively after the
\* whitespace around the value is trimmed; every other value, and no value,
\* gives true; no value makes loading fail.
C8_TlsFlagByTrimmedToken ==
    /\ pc = "configured"
       => cfg.smtp_tls = (~(env["SMTP_TLS"].set
                            /\ IsPaddedToken(env["SMTP_TLS"].val, Falsy)))
    /\ (pc # "start" /\ OthersGood(env)) => pc = "configured"

\* SMTP_TLS set to " Off", a falsy token in mixed case after a space, loaded
\* as false
C8_Witness ==
    /\ pc = "configured"
    /\ env["SMTP_TLS"].set
    /\ env["SMTP_TLS"].val = <<" ", "O", "f", "f">>
    /\ ~cfg.smtp_tls

====
